---- MODULE Spec2Model ----
(***************************************************************************)
(* Model of the command-line calculator of src/main.rs: the read-evaluate- *)
(* print loop of main and the three stages of evaluate_expression          *)
(* (tokenize, parse_tokens, evaluate_tree).                                *)
(*                                                                         *)
(* Text is a sequence of characters, each a one-character string (a       *)
(* white-space character outside ASCII is written by its code point, as    *)
(* "U+00A0").  An f64 is modelled as the IEEE 754 binary64 value it is,    *)
(* with the rounding of every operation and of the parsing of a literal.   *)
(***************************************************************************)
EXTENDS Integers, Sequences, FiniteSets

VARIABLES pc, input, pos, buffer, tokens, output, operators, stack, result, printed

vars == <<pc, input, pos, buffer, tokens, output, operators, stack, result, printed>>

(***************************************************************************)
(* Bounds of the model.                                                    *)
(***************************************************************************)
\* longest arbitrary text over Alphabet typed at the prompt
MaxLen == 3
\* longest well-formed expression (in characters) typed at the prompt
MaxExprLen == 7
\* longest text made of a well-formed expression and an excess ')' after it
MaxExcessLen == 6

Max(S) == CHOOSE x \in S : \A y \in S : y <= x
Min(S) == CHOOSE x \in S : \A y \in S : x <= y

(***************************************************************************)
(* Natural numbers of any size, for the 53-bit significands: a sequence of *)
(* limbs in base 2^15, least significant first, with no leading zero limb  *)
(* (zero is the empty sequence).                                           *)
(***************************************************************************)
LimbBits == 15
Base == 2 ^ LimbBits

Pow2(k) == 2 ^ k

\* a without its most significant limbs that are 0
BigTrim(a) ==
    LET nz == {i \in 1..Len(a) : a[i] # 0}
    IN  IF nz = {} THEN <<>>
        ELSE SubSeq(a, 1, CHOOSE i \in nz : \A j \in nz : j <= i)

RECURSIVE BigOfNat(_)
BigOfNat(n) == IF n = 0 THEN <<>> ELSE <<n % Base>> \o BigOfNat(n \div Base)

\* a + b for limbs below 2 * Base: limb i takes a carry when a limb below
\* it overflows and every limb between passes the carry on
BigAdd(a, b) ==
    LET n == IF Len(a) < Len(b) THEN Len(b) ELSE Len(a)
        s == [i \in 1..n |-> (IF i <= Len(a) THEN a[i] ELSE 0)
                                 + (IF i <= Len(b) THEN b[i] ELSE 0)]
        c == [i \in 1..(n + 1) |->
                 IF \E j \in 1..(i - 1) :
                        s[j] >= Base /\ \A k \in (j + 1)..(i - 1) : s[k] = Base - 1
                 THEN 1 ELSE 0]
    IN  BigTrim([i \in 1..(n + 1) |-> IF i <= n THEN (s[i] + c[i]) % Base ELSE c[i]])

\* a - b for a >= b: limb i lends when a limb below it is short and every
\* limb between has nothing to spare
BigSub(a, b) ==
    LET bb == [i \in 1..Len(a) |-> IF i <= Len(b) THEN b[i] ELSE 0]
        w == [i \in 1..Len(a) |->
                 IF \E j \in 1..(i - 1) :
                        a[j] < bb[j] /\ \A k \in (j + 1)..(i - 1) : a[k] = bb[k]
                 THEN 1 ELSE 0]
    IN  BigTrim([i \in 1..Len(a) |-> (a[i] - bb[i] - w[i] + Base) % Base])

\* -1, 0, 1 as a < b, a = b, a > b
BigCmp(a, b) ==
    IF Len(a) # Len(b) THEN (IF Len(a) < Len(b) THEN -1 ELSE 1)
    ELSE IF \A i \in 1..Len(a) : a[i] = b[i] THEN 0
    ELSE LET i == CHOOSE i \in 1..Len(a) :
                      a[i] # b[i] /\ \A j \in (i + 1)..Len(a) : a[j] = b[j]
         IN  IF a[i] < b[i] THEN -1 ELSE 1

\* a * k + carry for 0 <= k < Base and 0 <= carry < Base: the low halves
\* of the products of the limbs, plus their high halves one limb up
BigMulSmall(a, k, carry) ==
    BigAdd([i \in 1..Len(a) |-> (a[i] * k) % Base],
           <<carry>> \o [i \in 1..Len(a) |-> (a[i] * k) \div Base])

ZeroLimbs(n) == [i \in 1..n |-> 0]

\* a times the limbs lo..hi of b, each at its place
RECURSIVE BigMulLimbs(_, _, _, _)
BigMulLimbs(a, b, lo, hi) ==
    IF lo = hi THEN ZeroLimbs(lo - 1) \o BigMulSmall(a, b[lo], 0)
    ELSE BigAdd(BigMulLimbs(a, b, lo, (lo + hi) \div 2),
                BigMulLimbs(a, b, (lo + hi) \div 2 + 1, hi))

BigMul(a, b) ==
    IF a = <<>> \/ b = <<>> THEN <<>> ELSE BigMulLimbs(a, b, 1, Len(b))

\* a * 2^n
BigShl(a, n) ==
    IF a = <<>> THEN <<>>
    ELSE ZeroLimbs(n \div LimbBits) \o BigMulSmall(a, Pow2(n % LimbBits), 0)

\* a with its limbs divided by 2^k (0 <= k < LimbBits), the bits shifted
\* out of a limb going to the limb below
BigShrSmall(a, k) ==
    [i \in 1..Len(a) |->
        a[i] \div Pow2(k)
            + (IF i = Len(a) THEN 0 ELSE a[i + 1] % Pow2(k)) * Pow2(LimbBits - k)]

\* floor(a / 2^n)
BigShr(a, n) ==
    IF n \div LimbBits >= Len(a) THEN <<>>
    ELSE BigTrim(BigShrSmall(SubSeq(a, n \div LimbBits + 1, Len(a)), n % LimbBits))

RECURSIVE NatBitLen(_)
NatBitLen(n) == IF n = 0 THEN 0 ELSE 1 + NatBitLen(n \div 2)

BigBitLen(a) ==
    IF a = <<>> THEN 0 ELSE (Len(a) - 1) * LimbBits + NatBitLen(a[Len(a)])

\* bit i of a, bit 0 the least significant
BigBit(a, i) ==
    IF i \div LimbBits >= Len(a) THEN 0
    ELSE (a[i \div LimbBits + 1] \div Pow2(i % LimbBits)) % 2

\* the n low bits of a are all 0
BigLowZero(a, n) ==
    /\ \A j \in 1..(n \div LimbBits) : j > Len(a) \/ a[j] = 0
    /\ (n \div LimbBits >= Len(a)
           \/ a[n \div LimbBits + 1] % Pow2(n % LimbBits) = 0)

BigIsOdd(a) == a # <<>> /\ a[1] % 2 = 1

\* the number of 0 bits below the lowest 1 bit of a # 0
BigTrailingZeros(a) ==
    LET j == CHOOSE j \in 1..Len(a) : a[j] # 0 /\ \A i \in 1..(j - 1) : a[i] = 0
    IN  (j - 1) * LimbBits
            + CHOOSE k \in 0..(LimbBits - 1) : a[j] % Pow2(k + 1) = Pow2(k)

\* the largest k in lo..hi with d * k <= r, where d * lo <= r
RECURSIVE BigQuotDigit(_, _, _, _)
BigQuotDigit(r, d, lo, hi) ==
    IF lo = hi THEN lo
    ELSE IF BigCmp(BigMulSmall(d, (lo + hi + 1) \div 2, 0), r) <= 0
         THEN BigQuotDigit(r, d, (lo + hi + 1) \div 2, hi)
         ELSE BigQuotDigit(r, d, lo, (lo + hi + 1) \div 2 - 1)

\* long division of n by d # 0, limb by limb: the limbs i..1 of n are
\* brought down into the remainder r (below d) with the quotient q so far;
\* the result is the quotient and whether a remainder is left
RECURSIVE BigDivLimbs(_, _, _, _, _)
BigDivLimbs(n, d, i, q, r) ==
    IF i = 0 THEN [q |-> BigTrim(q), rest |-> r # <<>>]
    ELSE LET r2 == BigTrim(<<n[i]>> \o r)
             k == BigQuotDigit(r2, d, 0, Base - 1)
         IN  BigDivLimbs(n, d, i - 1, <<k>> \o q,
                         IF k = 0 THEN r2 ELSE BigSub(r2, BigMulSmall(d, k, 0)))

\* short division of n by a d # 0 below Base: the limbs i..1 of n are
\* brought down into the remainder r (below d) with the quotient q so far
RECURSIVE BigDivSmall(_, _, _, _, _)
BigDivSmall(n, d, i, q, r) ==
    IF i = 0 THEN [q |-> BigTrim(q), rest |-> r # 0]
    ELSE BigDivSmall(n, d, i - 1, <<(r * Base + n[i]) \div d>> \o q,
                     (r * Base + n[i]) % d)

\* floor(n / d) for d # 0, and whether a remainder is left; before a long
\* division the limbs of n that cannot yet hold d start as the remainder
BigDiv(n, d) ==
    IF Len(d) = 1 THEN BigDivSmall(n, d[1], Len(n), <<>>, 0)
    ELSE LET t == IF Len(d) - 1 < Len(n) THEN Len(d) - 1 ELSE Len(n)
         IN  BigDivLimbs(n, d, Len(n) - t, <<>>, SubSeq(n, Len(n) - t + 1, Len(n)))

(***************************************************************************)
(* f64: an IEEE 754 binary64 value.  A number is (-1)^neg * m * 2^e with   *)
(* m odd (or m = 0 and e = 0, for +0.0 and -0.0), which is one record per  *)
(* value; the infinities and NaN have m = 0, e = 0.  Every operation is    *)
(* the exact result rounded to nearest, ties to even, to 53 significant    *)
(* bits, with gradual underflow below 2^-1022 and overflow to infinity.    *)
(***************************************************************************)
SignificandBits == 53
MinExponent == -1074
MaxExponent == 1024

F64Num(neg, m, e) == [k |-> "num", neg |-> neg, m |-> m, e |-> e]
F64Zero(neg) == F64Num(neg, <<>>, 0)
F64Inf(neg) == [k |-> "inf", neg |-> neg, m |-> <<>>, e |-> 0]
F64NaN == [k |-> "nan", neg |-> FALSE, m |-> <<>>, e |-> 0]

Zero == F64Zero(FALSE)

\* x == 0.0 (true of -0.0 too, false of NaN)
F64IsZero(x) == x.k = "num" /\ x.m = <<>>

\* m * 2^e for m # 0 below 2^53, e >= MinExponent: m made odd
F64Canon(neg, m, e) ==
    IF BigBitLen(m) + e > MaxExponent THEN F64Inf(neg)
    ELSE F64Num(neg, BigShr(m, BigTrailingZeros(m)), e + BigTrailingZeros(m))

\* the f64 nearest (-1)^neg * (n + f) * 2^e, where 0 <= f < 1 and f > 0 just
\* when sticky (then n has at least 55 bits)
F64Round(neg, n, e, sticky) ==
    IF n = <<>> THEN F64Zero(neg)
    ELSE LET lsb == IF e + BigBitLen(n) - SignificandBits < MinExponent
                    THEN MinExponent
                    ELSE e + BigBitLen(n) - SignificandBits
             sh == lsb - e
         IN  IF sh <= 0 THEN F64Canon(neg, n, e)
             ELSE LET q == BigShr(n, sh)
                      half == BigBit(n, sh - 1) = 1
                      low == sticky \/ ~BigLowZero(n, sh - 1)
                      q2 == IF half /\ (low \/ BigIsOdd(q)) THEN BigAdd(q, <<1>>) ELSE q
                  IN  IF q2 = <<>> THEN F64Zero(neg) ELSE F64Canon(neg, q2, lsb)

\* the f64 nearest (-1)^neg * (n / d) * 2^e, for n # 0 and d # 0: n is
\* scaled by a power of two to make the quotient 55 to 65 bits long, and
\* what the scaling and the division drop is the sticky part
F64RoundDiv(neg, n, d, e) ==
    IF d = <<1>> THEN F64Round(neg, n, e, FALSE) ELSE
    LET s == IF BigBitLen(d) + 55 > BigBitLen(n)
             THEN BigBitLen(d) + 55 - BigBitLen(n) ELSE 0
        t == IF BigBitLen(n) > BigBitLen(d) + 64
             THEN BigBitLen(n) - BigBitLen(d) - 64 ELSE 0
        qr == BigDiv(IF s > 0 THEN BigShl(n, s) ELSE BigShr(n, t), d)
    IN  F64Round(neg, qr.q, e - s + t, qr.rest \/ ~BigLowZero(n, t))

F64OfInt(i) ==
    IF i = 0 THEN Zero
    ELSE F64Round(i < 0, BigOfNat(IF i < 0 THEN -i ELSE i), 0, FALSE)

F64Neg(x) == IF x.k = "nan" THEN x ELSE [x EXCEPT !.neg = ~x.neg]

\* the binary place above the highest 1 bit of a number that is not zero
F64Top(x) == BigBitLen(x.m) + x.e

\* (an operand more than 64 binary places below the other is less than a
\* quarter of the other's last place, and the rounded sum is the other)
F64Add(x, y) ==
    IF x.k = "nan" \/ y.k = "nan" THEN F64NaN
    ELSE IF x.k = "inf" /\ y.k = "inf" THEN (IF x.neg = y.neg THEN x ELSE F64NaN)
    ELSE IF x.k = "inf" THEN x
    ELSE IF y.k = "inf" THEN y
    ELSE IF x.m = <<>> /\ y.m = <<>> THEN F64Zero(x.neg /\ y.neg)
    ELSE IF x.m = <<>> THEN y
    ELSE IF y.m = <<>> THEN x
    ELSE IF F64Top(x) - F64Top(y) > 64 THEN x
    ELSE IF F64Top(y) - F64Top(x) > 64 THEN y
    ELSE LET e == IF x.e < y.e THEN x.e ELSE y.e
             a == BigShl(x.m, x.e - e)
             b == BigShl(y.m, y.e - e)
         IN  IF x.neg = y.neg THEN F64Round(x.neg, BigAdd(a, b), e, FALSE)
             ELSE IF BigCmp(a, b) = 0 THEN Zero
             ELSE IF BigCmp(a, b) > 0 THEN F64Round(x.neg, BigSub(a, b), e, FALSE)
             ELSE F64Round(y.neg, BigSub(b, a), e, FALSE)

F64Sub(x, y) == F64Add(x, F64Neg(y))

F64Mul(x, y) ==
    IF x.k = "nan" \/ y.k = "nan" THEN F64NaN
    ELSE IF x.k = "inf" \/ y.k = "inf"
    THEN (IF F64IsZero(x) \/ F64IsZero(y) THEN F64NaN ELSE F64Inf(x.neg # y.neg))
    ELSE IF x.m = <<>> \/ y.m = <<>> THEN F64Zero(x.neg # y.neg)
    ELSE F64Round(x.neg # y.neg, BigMul(x.m, y.m), x.e + y.e, FALSE)

F64Div(x, y) ==
    IF x.k = "nan" \/ y.k = "nan" THEN F64NaN
    ELSE IF x.k = "inf" THEN (IF y.k = "inf" THEN F64NaN ELSE F64Inf(x.neg # y.neg))
    ELSE IF y.k = "inf" THEN F64Zero(x.neg # y.neg)
    ELSE IF y.m = <<>> THEN (IF x.m = <<>> THEN F64NaN ELSE F64Inf(x.neg # y.neg))
    ELSE IF x.m = <<>> THEN F64Zero(x.neg # y.neg)
    ELSE F64RoundDiv(x.neg # y.neg, x.m, y.m, x.e - y.e)

(***************************************************************************)
(* Characters.                                                             *)
(***************************************************************************)
DigitChars == <<"0", "1", "2", "3", "4", "5", "6", "7", "8", "9">>
Digits == {DigitChars[i] : i \in 1..10}
OperatorChars == {"+", "-", "*", "/"}

DigitVal(c) == (CHOOSE i \in 1..10 : DigitChars[i] = c) - 1

RECURSIVE Pow10(_)
Pow10(k) ==
    IF k = 0 THEN <<1>>
    ELSE IF k % 2 = 1 THEN BigMulSmall(Pow10(k - 1), 10, 0)
    ELSE BigMul(Pow10(k \div 2), Pow10(k \div 2))

RECURSIVE IntOf(_)
IntOf(ds) ==
    IF ds = <<>> THEN <<>>
    ELSE IF Len(ds) = 1 THEN BigOfNat(DigitVal(ds[1]))
    ELSE BigAdd(BigMul(IntOf(SubSeq(ds, 1, Len(ds) \div 2)),
                       Pow10(Len(ds) - Len(ds) \div 2)),
                IntOf(SubSeq(ds, Len(ds) \div 2 + 1, Len(ds))))

IsDigit(c) == c \in Digits

\* str::parse::<f64> on a buffer of digits and '.': the text is a number when
\* it holds at most one '.' and at least one digit ("5." and ".5" parse, "."
\* and "1.2.3" do not); the value is the f64 nearest the decimal it writes.
parse_f64(buf) ==
    LET dots == {i \in 1..Len(buf) : buf[i] = "."}
        digs == SelectSeq(buf, IsDigit)
        frac == IF dots = {} THEN 0 ELSE Len(buf) - (CHOOSE i \in dots : TRUE)
    IN  IF Cardinality(dots) > 1 \/ digs = <<>>
        THEN [ok |-> FALSE, val |-> Zero]
        ELSE IF IntOf(digs) = <<>> THEN [ok |-> TRUE, val |-> Zero]
        ELSE [ok |-> TRUE, val |-> F64RoundDiv(FALSE, IntOf(digs), Pow10(frac), 0)]

(***************************************************************************)
(* enum Token.                                                             *)
(***************************************************************************)
Number(v) == [type |-> "Number", value |-> v, op |-> ""]
Operator(c) == [type |-> "Operator", value |-> Zero, op |-> c]
LeftParenthesis == [type |-> "LeftParenthesis", value |-> Zero, op |-> ""]
RightParenthesis == [type |-> "RightParenthesis", value |-> Zero, op |-> ""]

(***************************************************************************)
(* Result<_, String>, and the outcome of a call that panics instead of     *)
(* returning.                                                              *)
(***************************************************************************)
Ok(v) == [kind |-> "Ok", val |-> v, err |-> ""]
Err(e) == [kind |-> "Err", val |-> Zero, err |-> e]
Panic == [kind |-> "Panic", val |-> Zero, err |-> ""]
NoResult == [kind |-> "None", val |-> Zero, err |-> ""]

InvalidFormat == "Invalid expression format"
InvalidCharacter == "Invalid character in expression"
DivisionByZero == "Division by zero"
InvalidOperator == "Invalid operator"
InvalidToken == "Invalid token in expression"

(***************************************************************************)
(* tokenize: one iteration of the loop over the characters, and the flush  *)
(* of the pending digits.  A step yields the new tokens and buffer, or an  *)
(* error, or a panic (buffer.parse().unwrap() on a malformed number).      *)
(***************************************************************************)
TokCont(toks, buf) == [kind |-> "Cont", tokens |-> toks, buffer |-> buf, err |-> ""]
TokErr(e) == [kind |-> "Err", tokens |-> <<>>, buffer |-> <<>>, err |-> e]
TokPanic == [kind |-> "Panic", tokens |-> <<>>, buffer |-> <<>>, err |-> ""]

\* if !buffer.is_empty() { tokens.push(Number(buffer.parse().unwrap())); buffer.clear() }
flush_buffer(toks, buf) ==
    IF buf = <<>> THEN TokCont(toks, buf)
    ELSE IF parse_f64(buf).ok
         THEN TokCont(Append(toks, Number(parse_f64(buf).val)), <<>>)
         ELSE TokPanic

\* variant: a space ends the pending number
tokenize_char_space_ends_number(toks, buf, c) ==
    IF c \in OperatorChars THEN
        LET f == flush_buffer(toks, buf)
        IN  IF f.kind = "Panic" THEN TokPanic
            ELSE TokCont(Append(f.tokens, Operator(c)), f.buffer)
    ELSE IF c = "(" THEN
        IF buf # <<>> THEN TokErr(InvalidFormat)
        ELSE TokCont(Append(toks, LeftParenthesis), buf)
    ELSE IF c = ")" THEN
        LET f == flush_buffer(toks, buf)
        IN  IF f.kind = "Panic" THEN TokPanic
            ELSE TokCont(Append(f.tokens, RightParenthesis), f.buffer)
    ELSE IF c \in Digits \/ c = "." THEN TokCont(toks, Append(buf, c))
    ELSE IF c = " " THEN flush_buffer(toks, buf)
    ELSE TokErr(InvalidCharacter)

tokenize_char(toks, buf, c) ==
    IF c \in OperatorChars THEN
        LET f == flush_buffer(toks, buf)
        IN  IF f.kind = "Panic" THEN TokPanic
            ELSE TokCont(Append(f.tokens, Operator(c)), f.buffer)
    ELSE IF c = "(" THEN
        IF buf # <<>> THEN TokErr(InvalidFormat)
        ELSE TokCont(Append(toks, LeftParenthesis), buf)
    ELSE IF c = ")" THEN
        LET f == flush_buffer(toks, buf)
        IN  IF f.kind = "Panic" THEN TokPanic
            ELSE TokCont(Append(f.tokens, RightParenthesis), f.buffer)
    ELSE IF c \in Digits \/ c = "." THEN TokCont(toks, Append(buf, c))
    ELSE IF c = " " THEN TokCont(toks, buf)
    ELSE TokErr(InvalidCharacter)

\* the loop over the characters lo..hi of the text from the state s, run as
\* its first half and then its second half; an error or a panic ends it
RECURSIVE tokenize_from(_, _, _, _)
tokenize_from(text, lo, hi, s) ==
    IF s.kind # "Cont" \/ lo > hi THEN s
    ELSE IF lo = hi THEN tokenize_char(s.tokens, s.buffer, text[lo])
    ELSE tokenize_from(text, (lo + hi) \div 2 + 1, hi,
                       tokenize_from(text, lo, (lo + hi) \div 2, s))

tokenize(expression) ==
    LET s == tokenize_from(expression, 1, Len(expression), TokCont(<<>>, <<>>))
    IN  IF s.kind = "Panic" THEN Panic
        ELSE IF s.kind = "Err" THEN Err(s.err)
        ELSE IF flush_buffer(s.tokens, s.buffer).kind = "Panic" THEN Panic
        ELSE Ok(flush_buffer(s.tokens, s.buffer).tokens)

(***************************************************************************)
(* parse_tokens: the shunting yard.  One iteration of the loop over the    *)
(* tokens, with its inner loops, and the final drain of the operator       *)
(* stack.  The top of a Vec used as a stack is its last element.           *)
(***************************************************************************)
Top(s) == s[Len(s)]
Pop(s) == SubSeq(s, 1, Len(s) - 1)

precedence(op) ==
    IF op \in {"+", "-"} THEN 1
    ELSE IF op \in {"*", "/"} THEN 2
    ELSE 0

\* variant: only a strictly higher stacked operator is emitted first
pops_first_strict(op, top_char) == precedence(op) < precedence(top_char)

\* the test of line 103: the stacked operator is emitted before op is pushed
pops_first(op, top_char) == precedence(op) <= precedence(top_char)

ParseCont(out, ops) == [kind |-> "Cont", output |-> out, operators |-> ops, err |-> ""]
ParseErr(e) == [kind |-> "Err", output |-> <<>>, operators |-> <<>>, err |-> e]

\* variant: the operators popped are not pushed to the output
RECURSIVE pop_operators_discards(_, _, _)
pop_operators_discards(out, ops, op) ==
    IF ops # <<>> /\ Top(ops).type = "Operator" /\ pops_first(op, Top(ops).op)
    THEN pop_operators_discards(out, Pop(ops), op)
    ELSE ParseCont(out, ops)

\* while let Some(top_op) = operators.last() { ... } of the Operator arm
RECURSIVE pop_operators(_, _, _)
pop_operators(out, ops, op) ==
    IF ops # <<>> /\ Top(ops).type = "Operator" /\ pops_first(op, Top(ops).op)
    THEN pop_operators(Append(out, Top(ops)), Pop(ops), op)
    ELSE ParseCont(out, ops)

\* variant: a RightParenthesis with no LeftParenthesis stacked is an error
RECURSIVE pop_to_left_strict(_, _)
pop_to_left_strict(out, ops) ==
    IF ops = <<>> THEN ParseErr("Mismatched parentheses")
    ELSE IF Top(ops).type = "LeftParenthesis" THEN ParseCont(out, Pop(ops))
    ELSE pop_to_left_strict(Append(out, Top(ops)), Pop(ops))

\* while let Some(top) = operators.pop() { ... } of the RightParenthesis arm
RECURSIVE pop_to_left(_, _)
pop_to_left(out, ops) ==
    IF ops = <<>> THEN ParseCont(out, ops)
    ELSE IF Top(ops).type = "LeftParenthesis" THEN ParseCont(out, Pop(ops))
    ELSE pop_to_left(Append(out, Top(ops)), Pop(ops))

parse_token(out, ops, token) ==
    IF token.type = "Number" THEN ParseCont(Append(out, token), ops)
    ELSE IF token.type = "Operator" THEN
        LET p == pop_operators(out, ops, token.op)
        IN  ParseCont(p.output, Append(p.operators, Operator(token.op)))
    ELSE IF token.type = "LeftParenthesis" THEN ParseCont(out, Append(ops, token))
    ELSE pop_to_left(out, ops)

\* while let Some(op) = operators.pop() { output.push(op) }
RECURSIVE drain_operators(_, _)
drain_operators(out, ops) ==
    IF ops = <<>> THEN out
    ELSE drain_operators(Append(out, Top(ops)), Pop(ops))

\* the loop over the tokens lo..hi from the state s, run as its first half
\* and then its second half
RECURSIVE parse_from(_, _, _, _)
parse_from(toks, lo, hi, s) ==
    IF s.kind # "Cont" \/ lo > hi THEN s
    ELSE IF lo = hi THEN parse_token(s.output, s.operators, toks[lo])
    ELSE parse_from(toks, (lo + hi) \div 2 + 1, hi,
                    parse_from(toks, lo, (lo + hi) \div 2, s))

parse_tokens(toks) ==
    LET s == parse_from(toks, 1, Len(toks), ParseCont(<<>>, <<>>))
    IN  IF s.kind = "Err" THEN Err(s.err)
        ELSE Ok(drain_operators(s.output, s.operators))

(***************************************************************************)
(* evaluate_tree: one iteration of the loop over the postfix tokens, and   *)
(* the final check of the operand stack.                                   *)
(***************************************************************************)
EvalCont(st) == [kind |-> "Cont", stack |-> st, err |-> ""]
EvalErr(st, e) == [kind |-> "Err", stack |-> st, err |-> e]

\* if stack.len() < 2 { return Err(..) }
too_few_operands(st) == Len(st) < 2

\* variant: the zero test reads the left operand
divides_by_zero_left(operand1, operand2) == F64IsZero(operand1)

\* the '/' arm: if operand2 == 0.0 { return Err(..) }
divides_by_zero(operand1, operand2) == F64IsZero(operand2)

\* variant: the subtraction takes its operands in pop order
apply_operator_swapped(st, op, operand1, operand2) ==
    IF op = "+" THEN EvalCont(Append(st, F64Add(operand1, operand2)))
    ELSE IF op = "-" THEN EvalCont(Append(st, F64Sub(operand2, operand1)))
    ELSE IF op = "*" THEN EvalCont(Append(st, F64Mul(operand1, operand2)))
    ELSE IF op = "/" THEN
        IF divides_by_zero(operand1, operand2) THEN EvalErr(st, DivisionByZero)
        ELSE EvalCont(Append(st, F64Div(operand1, operand2)))
    ELSE EvalErr(st, InvalidOperator)

apply_operator(st, op, operand1, operand2) ==
    IF op = "+" THEN EvalCont(Append(st, F64Add(operand1, operand2)))
    ELSE IF op = "-" THEN EvalCont(Append(st, F64Sub(operand1, operand2)))
    ELSE IF op = "*" THEN EvalCont(Append(st, F64Mul(operand1, operand2)))
    ELSE IF op = "/" THEN
        IF divides_by_zero(operand1, operand2) THEN EvalErr(st, DivisionByZero)
        ELSE EvalCont(Append(st, F64Div(operand1, operand2)))
    ELSE EvalErr(st, InvalidOperator)

\* variant: the right operand is popped before the count is tested
evaluate_token_pops_first(st, token) ==
    IF token.type = "Number" THEN EvalCont(Append(st, token.value))
    ELSE IF token.type = "Operator" THEN
        IF st = <<>> THEN EvalErr(st, InvalidFormat)
        ELSE IF Pop(st) = <<>> THEN EvalErr(Pop(st), InvalidFormat)
        ELSE apply_operator(Pop(Pop(st)), token.op, Top(Pop(st)), Top(st))
    ELSE EvalErr(st, InvalidToken)

evaluate_token(st, token) ==
    IF token.type = "Number" THEN EvalCont(Append(st, token.value))
    ELSE IF token.type = "Operator" THEN
        IF too_few_operands(st) THEN EvalErr(st, InvalidFormat)
        ELSE apply_operator(Pop(Pop(st)), token.op, Top(Pop(st)), Top(st))
    ELSE EvalErr(st, InvalidToken)

\* variant: any non-empty final stack is accepted
evaluate_end_nonempty(st) == IF Len(st) < 1 THEN Err(InvalidFormat) ELSE Ok(st[1])

\* if stack.len() != 1 { return Err(..) }  Ok(stack[0])
evaluate_end(st) == IF Len(st) # 1 THEN Err(InvalidFormat) ELSE Ok(st[1])

\* the loop over the postfix tokens lo..hi from the state s, run as its
\* first half and then its second half; an error ends it
RECURSIVE evaluate_from(_, _, _, _)
evaluate_from(toks, lo, hi, s) ==
    IF s.kind # "Cont" \/ lo > hi THEN s
    ELSE IF lo = hi THEN evaluate_token(s.stack, toks[lo])
    ELSE evaluate_from(toks, (lo + hi) \div 2 + 1, hi,
                       evaluate_from(toks, lo, (lo + hi) \div 2, s))

evaluate_tree(toks) ==
    LET s == evaluate_from(toks, 1, Len(toks), EvalCont(<<>>))
    IN  IF s.kind = "Err" THEN Err(s.err) ELSE evaluate_end(s.stack)

(***************************************************************************)
(* evaluate_expression: the three stages, each behind a `?`.               *)
(***************************************************************************)
evaluate_expression(expression) ==
    LET t == tokenize(expression)
    IN  IF t.kind # "Ok" THEN t
        ELSE LET tree == parse_tokens(t.val)
             IN  IF tree.kind # "Ok" THEN tree
                 ELSE evaluate_tree(tree.val)

(***************************************************************************)
(* The lines typed at the prompt.                                          *)
(***************************************************************************)
Alphabet == {"0", "1", ".", "+", "-", "*", "/", "(", ")", " ", "&"}
ExprDigits == {"0", "1", "2"}
Literals == {<<"0">>, <<"2">>, <<"3">>, <<"1", ".", "5">>}

RECURSIVE TextsOfLen(_)
TextsOfLen(n) ==
    IF n = 0 THEN {<<>>}
    ELSE {Append(t, c) : t \in TextsOfLen(n - 1), c \in Alphabet}

\* every text over Alphabet of at most MaxLen characters
AllTexts == UNION {TextsOfLen(n) : n \in 0..MaxLen}

\* the well-formed expressions of exactly n characters over one-digit
\* literals: a literal, a parenthesised expression, or two expressions
\* around a binary operator
RECURSIVE ValidOfLen(_)
ValidOfLen(n) ==
    IF n < 1 THEN {}
    ELSE IF n = 1 THEN {<<d>> : d \in ExprDigits}
    ELSE {<<"(">> \o e \o <<")">> : e \in ValidOfLen(n - 2)}
         \cup UNION {{a \o <<o>> \o b : a \in ValidOfLen(k), o \in OperatorChars,
                                        b \in ValidOfLen(n - 1 - k)} : k \in 1..(n - 2)}

ValidExprs == UNION {ValidOfLen(n) : n \in 1..MaxExprLen}

\* a well-formed expression followed by one ')' too many
ExcessExprs ==
    {Append(e, ")") : e \in UNION {ValidOfLen(n) : n \in 1..(MaxExcessLen - 1)}}

\* a op1 op2 b, written with spaces as in "2 + + 3"
TwoOpTexts ==
    {a \o <<" ", o1, " ", o2, " ">> \o b :
        a \in Literals, o1 \in OperatorChars, o2 \in OperatorChars, b \in Literals}

Examples ==
    { <<"8", " ", "-", " ", "3", " ", "-", " ", "2">>,
      <<"2", " ", "+", " ", "3", " ", "*", " ", "4">>,
      <<"(", "2", " ", "+", " ", "3", ")", " ", "*", " ", "4">>,
      <<"2", " ", " ", " ", "+", " ", " ", " ", "2">>,
      <<"2", " ", "&", " ", "3">>,
      <<"1", "/", "0", "&">>,
      <<"1", "/", "0", "+", "1", "(">>,
      <<"1", "+", "&">>,
      <<"1", ".", "2", ".", "3">>,
      <<".", "1", "+", ".", "2">>,
      <<"1", "/", "(", ".", "1", "+", ".", "2", "-", ".", "3", ")">>,
      <<"1", "/", "(", ".", "3", "-", ".", "1", "-", ".", "2", ")">>,
      <<"1", "/", "(", "(", "0", "-", "1", ")", "*", "0", ")">>,
      <<"(", "0", "-", "1", ")", "*", "0">>,
      <<"1", "/", "3", "*", "3">>,
      <<"\t", "1", "+", "1">>,
      <<"1", "+", "1", "\r">>,
      <<"\f", " ", "U+00A0", "2", "*", "3", "U+3000", "\t">>,
      <<"1", "\t", "+", "1">>,
      <<"A", "+", "1">>,
      <<"2", "*", "(", "1", "+", "1", "-", "1", ")">>,
      <<"1", "/", "(", "2", "-", "(", "1", "+", "1", ")", ")">>,
      <<"(", "(", "1", "+", "2", ")", "*", "(", "3", "-", "1", ")", ")", "/", "4">> }

QuitLines ==
    { <<"q", "u", "i", "t">>, <<"Q", "U", "I", "T">>, <<" ", "Q", "u", "i", "t", " ">>,
      <<"\t", "q", "U", "i", "T", "\r">> }

Inputs == AllTexts \cup ValidExprs \cup ExcessExprs \cup TwoOpTexts
              \cup Examples \cup QuitLines

(***************************************************************************)
(* str::trim and str::to_lowercase.  The characters of the model are those *)
(* of ASCII and the white space outside it.                                *)
(***************************************************************************)
\* the characters with the Unicode property White_Space (char::is_whitespace)
WhiteSpace ==
    { "\t", "\n", "U+000B", "\f", "\r", " ", "U+0085", "U+00A0", "U+1680",
      "U+2000", "U+2001", "U+2002", "U+2003", "U+2004", "U+2005", "U+2006",
      "U+2007", "U+2008", "U+2009", "U+200A", "U+2028", "U+2029", "U+202F",
      "U+205F", "U+3000" }

IsWhitespace(c) == c \in WhiteSpace

\* the text from its first character that is not white space
trim_start(t) ==
    IF \A i \in 1..Len(t) : IsWhitespace(t[i]) THEN <<>>
    ELSE SubSeq(t, Min({i \in 1..Len(t) : ~IsWhitespace(t[i])}), Len(t))

\* the text up to its last character that is not white space
trim_end(t) ==
    IF \A i \in 1..Len(t) : IsWhitespace(t[i]) THEN <<>>
    ELSE SubSeq(t, 1, Max({i \in 1..Len(t) : ~IsWhitespace(t[i])}))

trim(t) == trim_end(trim_start(t))

UpperCase == <<"A", "B", "C", "D", "E", "F", "G", "H", "I", "J", "K", "L", "M",
               "N", "O", "P", "Q", "R", "S", "T", "U", "V", "W", "X", "Y", "Z">>
LowerCase == <<"a", "b", "c", "d", "e", "f", "g", "h", "i", "j", "k", "l", "m",
               "n", "o", "p", "q", "r", "s", "t", "u", "v", "w", "x", "y", "z">>

\* an upper-case letter becomes its lower-case letter, every other
\* character of the model is kept
lower_char(c) ==
    IF \E i \in 1..Len(UpperCase) : UpperCase[i] = c
    THEN LowerCase[CHOOSE i \in 1..Len(UpperCase) : UpperCase[i] = c]
    ELSE c

to_lowercase(t) == [i \in 1..Len(t) |-> lower_char(t[i])]

(***************************************************************************)
(* The state machine: main's loop, and evaluate_expression run one loop    *)
(* iteration at a time.  pc is the place in the program; pos is the index  *)
(* (from 1) of the next element of the loop the program is in.  The locals *)
(* of a call are shown until its result is printed.  printed is the last   *)
(* line the process wrote.                                                 *)
(***************************************************************************)
Welcome == "Welcome to the Rust Calculator CLI with BODMAS support!"
PromptText == "Enter an expression (e.g., 2 + 2) or type 'quit' to exit:"
Goodbye == "Goodbye!"
\* the messages of the two panics, written to the standard error stream
ReadPanic == "Failed to read line"
UnwrapPanic == "called Result::unwrap() on an Err value"

NoLocals ==
    /\ pos' = 0
    /\ buffer' = <<>>
    /\ tokens' = <<>>
    /\ output' = <<>>
    /\ operators' = <<>>
    /\ stack' = <<>>
    /\ result' = NoResult

Init ==
    /\ pc = "prompt"
    /\ input = <<>>
    /\ pos = 0
    /\ buffer = <<>>
    /\ tokens = <<>>
    /\ output = <<>>
    /\ operators = <<>>
    /\ stack = <<>>
    /\ result = NoResult
    /\ printed = <<Welcome>>

\* println!("Enter an expression ...")
Prompt ==
    /\ pc = "prompt"
    /\ printed' = <<PromptText>>
    /\ pc' = "read"
    /\ UNCHANGED <<input, pos, buffer, tokens, output, operators, stack, result>>

\* read_line returns Ok with a line, ended by its '\n' or by the end of the
\* stream, and the line is trimmed
ReadLine ==
    /\ pc = "read"
    /\ \E text \in Inputs : \E line \in {Append(text, "\n"), text} :
           input' = trim(line)
    /\ pc' = "check"
    /\ UNCHANGED <<pos, buffer, tokens, output, operators, stack, result, printed>>

\* read_line returns Err (a read error, or bytes that are not UTF-8) and
\* expect("Failed to read line") panics
ReadFails ==
    /\ pc = "read"
    /\ pc' = "aborted"
    /\ printed' = <<ReadPanic>>
    /\ UNCHANGED <<input, pos, buffer, tokens, output, operators, stack, result>>

\* if input.to_lowercase() == "quit" { println!("Goodbye!"); break; }
Quit ==
    /\ pc = "check"
    /\ to_lowercase(input) = <<"q", "u", "i", "t">>
    /\ printed' = <<Goodbye>>
    /\ pc' = "exited"
    /\ UNCHANGED <<input, pos, buffer, tokens, output, operators, stack, result>>

\* evaluate_expression(input) is called; tokenize starts
CallEvaluate ==
    /\ pc = "check"
    /\ to_lowercase(input) # <<"q", "u", "i", "t">>
    /\ pc' = "tokenize"
    /\ pos' = 1
    /\ UNCHANGED <<input, buffer, tokens, output, operators, stack, result, printed>>

\* variant: an Err of tokenize is dropped and the tokens read so far go on
\* to parse_tokens
TokenizeStep_IgnoresError ==
    /\ pc = "tokenize"
    /\ pos <= Len(input)
    /\ LET s == tokenize_char(tokens, buffer, input[pos])
       IN  IF s.kind = "Cont"
           THEN /\ tokens' = s.tokens
                /\ buffer' = s.buffer
                /\ pos' = pos + 1
                /\ UNCHANGED <<pc, result>>
           ELSE IF s.kind = "Err"
           THEN /\ pc' = "parse"
                /\ pos' = 1
                /\ UNCHANGED <<tokens, buffer, result>>
           ELSE /\ pc' = "aborted"
                /\ UNCHANGED <<tokens, buffer, pos, result>>
    /\ printed' = IF tokenize_char(tokens, buffer, input[pos]).kind = "Panic"
                  THEN <<UnwrapPanic>> ELSE printed
    /\ UNCHANGED <<input, output, operators, stack>>

\* one character of tokenize; an Err returns from evaluate_expression
\* through the `?` of line 41, a panic ends the process
TokenizeStep ==
    /\ pc = "tokenize"
    /\ pos <= Len(input)
    /\ LET s == tokenize_char(tokens, buffer, input[pos])
       IN  IF s.kind = "Cont"
           THEN /\ tokens' = s.tokens
                /\ buffer' = s.buffer
                /\ pos' = pos + 1
                /\ UNCHANGED <<pc, result>>
           ELSE IF s.kind = "Err"
           THEN /\ result' = Err(s.err)
                /\ pc' = "print"
                /\ UNCHANGED <<tokens, buffer, pos>>
           ELSE /\ pc' = "aborted"
                /\ UNCHANGED <<tokens, buffer, pos, result>>
    /\ printed' = IF tokenize_char(tokens, buffer, input[pos]).kind = "Panic"
                  THEN <<UnwrapPanic>> ELSE printed
    /\ UNCHANGED <<input, output, operators, stack>>

\* the flush after the loop; tokenize returns Ok and parse_tokens starts
TokenizeEnd ==
    /\ pc = "tokenize"
    /\ pos > Len(input)
    /\ LET f == flush_buffer(tokens, buffer)
       IN  IF f.kind = "Panic"
           THEN /\ pc' = "aborted"
                /\ printed' = <<UnwrapPanic>>
                /\ UNCHANGED <<tokens, pos>>
           ELSE /\ tokens' = f.tokens
                /\ pc' = "parse"
                /\ pos' = 1
                /\ UNCHANGED printed
    /\ UNCHANGED <<input, buffer, output, operators, stack, result>>

\* one token of parse_tokens
ParseStep ==
    /\ pc = "parse"
    /\ pos <= Len(tokens)
    /\ LET s == parse_token(output, operators, tokens[pos])
       IN  IF s.kind = "Cont"
           THEN /\ output' = s.output
                /\ operators' = s.operators
                /\ pos' = pos + 1
                /\ UNCHANGED <<pc, result>>
           ELSE /\ result' = Err(s.err)
                /\ pc' = "print"
                /\ UNCHANGED <<output, operators, pos>>
    /\ UNCHANGED <<input, buffer, tokens, stack, printed>>

\* the drain after the loop; parse_tokens returns Ok and evaluate_tree starts
ParseEnd ==
    /\ pc = "parse"
    /\ pos > Len(tokens)
    /\ output' = drain_operators(output, operators)
    /\ operators' = <<>>
    /\ pc' = "evaluate"
    /\ pos' = 1
    /\ UNCHANGED <<input, buffer, tokens, stack, result, printed>>

\* one postfix token of evaluate_tree
EvaluateStep ==
    /\ pc = "evaluate"
    /\ pos <= Len(output)
    /\ LET s == evaluate_token(stack, output[pos])
       IN  IF s.kind = "Cont"
           THEN /\ stack' = s.stack
                /\ pos' = pos + 1
                /\ UNCHANGED <<pc, result>>
           ELSE /\ result' = Err(s.err)
                /\ stack' = s.stack
                /\ pc' = "print"
                /\ UNCHANGED pos
    /\ UNCHANGED <<input, buffer, tokens, output, operators, printed>>

\* the final check of the operand stack; evaluate_expression returns
EvaluateEnd ==
    /\ pc = "evaluate"
    /\ pos > Len(output)
    /\ result' = evaluate_end(stack)
    /\ pc' = "print"
    /\ UNCHANGED <<input, pos, buffer, tokens, output, operators, stack, printed>>

\* match result { Ok(value) => println!("Result: {}", value),
\*                Err(error) => println!("Error: {}", error) }
PrintResult ==
    /\ pc = "print"
    /\ printed' = IF result.kind = "Ok" THEN <<"Result: ", result.val>>
                                         ELSE <<"Error: ", result.err>>
    /\ pc' = "prompt"
    /\ input' = <<>>
    /\ NoLocals

Next ==
    \/ Prompt
    \/ ReadLine
    \/ ReadFails
    \/ Quit
    \/ CallEvaluate
    \/ TokenizeStep
    \/ TokenizeEnd
    \/ ParseStep
    \/ ParseEnd
    \/ EvaluateStep
    \/ EvaluateEnd
    \/ PrintResult

Spec == Init /\ [][Next]_vars

\* the process has panicked in a call of evaluate_expression
Unwrapped == pc = "aborted" /\ printed = <<UnwrapPanic>>

\* the state machine computes what the composed functions compute
StepsAgree ==
    /\ pc = "print" => result = evaluate_expression(input)
    /\ Unwrapped => evaluate_expression(input) = Panic
    /\ pc = "aborted" => (Unwrapped \/ printed = <<ReadPanic>>)

(***************************************************************************)
(* The reference reading of an infix expression, on the text itself: split *)
(* at the last + or - outside parentheses, else at the last * or / outside *)
(* parentheses (so equal operators group left to right and * / bind        *)
(* tighter), else strip one pair of parentheses, else read a literal.      *)
(***************************************************************************)
NotSpace(c) == c # " "
NoSpaces(t) == SelectSeq(t, NotSpace)

Depth(s, i) ==
    Cardinality({j \in 1..(i - 1) : s[j] = "("})
        - Cardinality({j \in 1..(i - 1) : s[j] = ")"})

TopLevel(s, ops) == {i \in 1..Len(s) : s[i] \in ops /\ Depth(s, i) = 0}

SplitAt(s) ==
    IF TopLevel(s, {"+", "-"}) # {} THEN Max(TopLevel(s, {"+", "-"}))
    ELSE IF TopLevel(s, {"*", "/"}) # {} THEN Max(TopLevel(s, {"*", "/"}))
    ELSE 0

IsLiteral(s) ==
    /\ s # <<>>
    /\ \A i \in 1..Len(s) : s[i] \in Digits \cup {"."}
    /\ parse_f64(s).ok

RECURSIVE WellFormed(_)
WellFormed(s) ==
    IF s = <<>> THEN FALSE
    ELSE IF SplitAt(s) # 0
    THEN /\ WellFormed(SubSeq(s, 1, SplitAt(s) - 1))
         /\ WellFormed(SubSeq(s, SplitAt(s) + 1, Len(s)))
    ELSE IF s[1] = "(" /\ s[Len(s)] = ")" THEN WellFormed(SubSeq(s, 2, Len(s) - 1))
    ELSE IsLiteral(s)

RefValue(v) == [dz |-> FALSE, val |-> v]
RefDivZero == [dz |-> TRUE, val |-> Zero]

RefApply(o, l, r) ==
    IF l.dz \/ r.dz THEN RefDivZero
    ELSE IF o = "+" THEN RefValue(F64Add(l.val, r.val))
    ELSE IF o = "-" THEN RefValue(F64Sub(l.val, r.val))
    ELSE IF o = "*" THEN RefValue(F64Mul(l.val, r.val))
    ELSE IF F64IsZero(r.val) THEN RefDivZero
    ELSE RefValue(F64Div(l.val, r.val))

\* on well-formed s: its value, or dz when the right operand of some
\* division evaluates to zero
RECURSIVE RefEval(_)
RefEval(s) ==
    IF SplitAt(s) # 0
    THEN RefApply(s[SplitAt(s)], RefEval(SubSeq(s, 1, SplitAt(s) - 1)),
                  RefEval(SubSeq(s, SplitAt(s) + 1, Len(s))))
    ELSE IF s[1] = "(" THEN RefEval(SubSeq(s, 2, Len(s) - 1))
    ELSE RefValue(parse_f64(s).val)

\* what the call of evaluate_expression came to
Outcome == IF Unwrapped THEN Panic ELSE result

Text_8m3m2 == <<"8", " ", "-", " ", "3", " ", "-", " ", "2">>
Text_2p3t4 == <<"2", " ", "+", " ", "3", " ", "*", " ", "4">>
Text_P2p3t4 == <<"(", "2", " ", "+", " ", "3", ")", " ", "*", " ", "4">>

\* C1: for every well-formed infix expression without a division by zero,
\* evaluate_expression returns Ok with the value of the reference reading
\* (* and / bind tighter than + and -, equal precedence groups left to
\* right): 8 - 3 - 2 = 3, 2 + 3 * 4 = 14, (2 + 3) * 4 = 20.
C1_ValueIsReference ==
    /\ (pc = "print" /\ WellFormed(NoSpaces(input)) /\ ~RefEval(NoSpaces(input)).dz)
          => result = Ok(RefEval(NoSpaces(input)).val)
    /\ (pc = "print" /\ input = Text_8m3m2) => result = Ok(F64OfInt(3))
    /\ (pc = "print" /\ input = Text_2p3t4) => result = Ok(F64OfInt(14))
    /\ (pc = "print" /\ input = Text_P2p3t4) => result = Ok(F64OfInt(20))
    /\ (pc = "aborted") => ~WellFormed(NoSpaces(input))

C1_Witness ==
    /\ pc = "print"
    /\ input = <<"2", "-", "1", "-", "1", "*", "2">>
    /\ result = Ok(F64OfInt(-1))

\* C2: for every well-formed infix expression in which the right operand of
\* some division evaluates to zero, at any nesting depth, evaluate_expression
\* returns the error "Division by zero" and never a value.
C2_DivisionByZero ==
    (pc = "print" /\ WellFormed(NoSpaces(input)) /\ RefEval(NoSpaces(input)).dz)
        => result = Err(DivisionByZero)

C2_Witness ==
    /\ pc = "print"
    /\ input = <<"1", "/", "(", "2", "-", "(", "1", "+", "1", ")", ")">>
    /\ result = Err(DivisionByZero)

\* C3: the loop survives every line that is not "quit": no line that was
\* read ends or aborts the process.
C3_LoopSurvives == ~Unwrapped

\* C4: the outcome of evaluate_expression on a text (value, error or abort)
\* is its outcome on the text with every space removed, and the spaces
\* produce no token.
C4_SpacesIgnored ==
    /\ (pc = "print" \/ Unwrapped) => Outcome = evaluate_expression(NoSpaces(input))
    /\ pc \in {"parse", "evaluate"} => tokenize(NoSpaces(input)) = Ok(tokens)

C4_Witness ==
    /\ pc = "print"
    /\ input = <<"2", " ", " ", " ", "+", " ", " ", " ", "2">>
    /\ result = Ok(F64OfInt(4))

\* the text is a op1 op2 b: two literals around two adjacent operators
IsTwoOpText(t) ==
    \E i \in 2..(Len(t) - 2) :
        /\ t[i] \in OperatorChars
        /\ t[i + 1] \in OperatorChars
        /\ IsLiteral(SubSeq(t, 1, i - 1))
        /\ IsLiteral(SubSeq(t, i + 2, Len(t)))

\* with tokens a op1 op2 b: the postfix sequence is a b op2 op1 and op2 is
\* a division by the literal zero
DividesFirst(toks) ==
    /\ precedence(toks[2].op) < precedence(toks[3].op)
    /\ toks[3].op = "/"
    /\ F64IsZero(toks[4].value)

\* both stages before evaluate_tree returned Ok, and evaluate_tree stopped
\* at an Operator token with one value on the operand stack, popping nothing
StoppedAtOperator ==
    /\ Len(tokens) = 4
    /\ Len(output) = 4
    /\ pos <= Len(output)
    /\ output[pos].type = "Operator"
    /\ Len(stack) = 1
    /\ result = Err(InvalidFormat)

\* C5 as stated: every input a op1 op2 b passes tokenize and parse_tokens
\* and fails in evaluate_tree with "Invalid expression format", at the first
\* Operator token met with fewer than two operands, without popping.
C5_AlwaysInvalidFormat ==
    IsTwoOpText(NoSpaces(input)) =>
        /\ pc # "aborted"
        /\ pc = "print" => StoppedAtOperator

\* C5 amended: every input a op1 op2 b passes tokenize and parse_tokens and
\* fails in evaluate_tree, never yielding a value: with "Division by zero"
\* when op1 is + or -, op2 is / and b is zero (the division a b / is
\* evaluated first), and otherwise with "Invalid expression format" at the
\* first Operator token met with fewer than two operands, without popping.
C5_FailsInEvaluate ==
    IsTwoOpText(NoSpaces(input)) =>
        /\ pc # "aborted"
        /\ pc = "print" =>
              IF DividesFirst(tokens)
              THEN /\ result = Err(DivisionByZero)
                   /\ Len(output) = 4
                   /\ output[pos] = Operator("/")
              ELSE StoppedAtOperator

C5_Witness ==
    /\ pc = "print"
    /\ input = <<"2", " ", "+", " ", "+", " ", "3">>
    /\ output = <<Number(F64OfInt(2)), Operator("+"), Number(F64OfInt(3)), Operator("+")>>
    /\ pos = 2
    /\ stack = <<F64OfInt(2)>>
    /\ result = Err(InvalidFormat)

CountType(toks, type) == Cardinality({i \in 1..Len(toks) : toks[i].type = type})

\* C6: evaluate_tree returns a value only when all postfix tokens are
\* consumed and the operand stack holds exactly one value; with any other
\* final count it returns "Invalid expression format".  An empty line fails
\* with it, and no input whose number of Number tokens differs from its
\* number of Operator tokens plus one yields a value.
C6_ExactlyOneValue ==
    pc = "print" =>
        /\ result.kind = "Ok" =>
              /\ pos = Len(output) + 1
              /\ Len(stack) = 1
              /\ result.val = stack[1]
              /\ CountType(tokens, "Number") = CountType(tokens, "Operator") + 1
        /\ (tokenize(input).kind = "Ok" /\ pos > Len(output) /\ Len(stack) # 1)
              => result = Err(InvalidFormat)
        /\ input = <<>> => result = Err(InvalidFormat)

C6_Witness ==
    /\ pc = "print"
    /\ input = <<"1", ")", "0">>
    /\ pos = 3
    /\ Len(stack) = 2
    /\ result = Err(InvalidFormat)

Recognised == OperatorChars \cup Digits \cup {"(", ")", ".", " "}

\* digits are pending at position i: the nearest character before i that is
\* not a space is a digit or a '.'
PendingDigits(t, i) ==
    \E j \in 1..(i - 1) :
        /\ t[j] \in Digits \cup {"."}
        /\ \A k \in (j + 1)..(i - 1) : t[k] = " "

\* the positions at which the lexer rejects the text
LexFaults(t) ==
    {i \in 1..Len(t) : \/ t[i] \notin Recognised
                       \/ t[i] = "(" /\ PendingDigits(t, i)}

LexError(c) == IF c = "(" THEN InvalidFormat ELSE InvalidCharacter

\* C7: the stages run in order and the first failure is returned unchanged:
\* when the text holds an unrecognised character or digits followed by '(',
\* the call returns the lexer's error for the first such place, and neither
\* parse_tokens nor evaluate_tree has run, whatever precedes that place.
\* (A call that does not return has not run them either.)
C7_LexerErrorFirst ==
    /\ (pc = "print" /\ LexFaults(input) # {}) =>
          /\ result = Err(LexError(input[Min(LexFaults(input))]))
          /\ pos = Min(LexFaults(input))
          /\ output = <<>>
          /\ operators = <<>>
          /\ stack = <<>>
    /\ (pc \in {"parse", "evaluate"}) => LexFaults(input) = {}
    /\ (pc = "aborted") => (output = <<>> /\ operators = <<>> /\ stack = <<>>)

C7_Witness ==
    /\ pc = "print"
    /\ input = <<"1", "/", "0", "&">>
    /\ tokens = <<Number(F64OfInt(1)), Operator("/")>>
    /\ result = Err(InvalidCharacter)

\* C8: the postfix sequence handed to evaluate_tree holds only Number and
\* Operator tokens, so the pipeline never returns "Invalid token in
\* expression".
C8_NoGroupingTokenInPostfix ==
    /\ pc = "evaluate" =>
          \A i \in 1..Len(output) : output[i].type \in {"Number", "Operator"}
    /\ pc = "print" => result # Err(InvalidToken)

\* the '(' still open after the first k tokens, a ')' with none open
\* closing nothing
RECURSIVE OpenCount(_, _)
OpenCount(toks, k) ==
    IF k = 0 THEN 0
    ELSE IF toks[k].type = "LeftParenthesis" THEN OpenCount(toks, k - 1) + 1
    ELSE IF toks[k].type = "RightParenthesis" /\ OpenCount(toks, k - 1) > 0
         THEN OpenCount(toks, k - 1) - 1
    ELSE OpenCount(toks, k - 1)

\* C9: parse_tokens returns Ok for every token sequence.  A RightParenthesis
\* met with no LeftParenthesis on the operator stack pops every stacked
\* operator into the output and the loop goes on; a well-formed expression
\* followed by one excess ')' yields the value of the expression alone.
C9_ParseNeverFails ==
    /\ pc \in {"parse", "evaluate"} => parse_tokens(tokens).kind = "Ok"
    /\ (pc = "print" /\ tokenize(input).kind = "Ok")
          => /\ parse_tokens(tokens) = Ok(output)
             /\ result = evaluate_tree(output)
    /\ (/\ pc = "parse"
        /\ pos > 1
        /\ tokens[pos - 1].type = "RightParenthesis"
        /\ OpenCount(tokens, pos - 2) = 0)
          => /\ operators = <<>>
             /\ Len(output) = CountType(SubSeq(tokens, 1, pos - 1), "Number")
                                + CountType(SubSeq(tokens, 1, pos - 1), "Operator")
    /\ (/\ pc = "print"
        /\ input # <<>>
        /\ Top(input) = ")"
        /\ WellFormed(NoSpaces(Pop(input))))
          => result = evaluate_expression(Pop(input))

C9_Witness ==
    /\ pc = "print"
    /\ input = <<"1", "+", "2", "*", "2", ")">>
    /\ result = Ok(F64OfInt(5))

\* after every token parse_tokens has processed, two adjacent Operator
\* tokens on the operator stack have strictly increasing precedence from
\* bottom to top, so no three Operators are adjacent; an Operator just
\* processed is on top, over a LeftParenthesis, a lower operator or nothing
StackPrecedenceIncreases ==
    pc = "parse" =>
        /\ \A i \in 1..(Len(operators) - 1) :
              (operators[i].type = "Operator" /\ operators[i + 1].type = "Operator")
                 => precedence(operators[i].op) < precedence(operators[i + 1].op)
        /\ \A i \in 1..(Len(operators) - 2) :
              ~(\A j \in i..(i + 2) : operators[j].type = "Operator")
        /\ \A i \in 1..Len(operators) :
              operators[i].type \in {"Operator", "LeftParenthesis"}
        /\ (pos > 1 /\ tokens[pos - 1].type = "Operator")
              => Top(operators) = tokens[pos - 1]

Reverse(s) == [i \in 1..Len(s) |-> s[Len(s) + 1 - i]]

\* the elements of s at the places I, in the order of s
SubAt(s, I) ==
    [k \in 1..Cardinality(I) |->
        s[CHOOSE i \in I : Cardinality({j \in I : j < i}) = k - 1]]

\* the places of the stacked Operators of precedence greater than or equal
\* to that of op
AtLeast(ops, op) ==
    {i \in 1..Len(ops) : ops[i].type = "Operator"
                            /\ precedence(ops[i].op) >= precedence(op)}

\* the place of the topmost LeftParenthesis on the stack, 0 with none
TopLeft(ops) == Max({0} \cup {i \in 1..Len(ops) : ops[i].type = "LeftParenthesis"})

\* parse_tokens processes an Operator token in this step
OperatorRead ==
    /\ pc = "parse"
    /\ pos <= Len(tokens)
    /\ tokens[pos].type = "Operator"
    /\ pos' = pos + 1

\* in this step the stacked operators at the places E go to the output, the
\* topmost first, the others stay, and the incoming operator is pushed over
\* nothing, a LeftParenthesis or an operator of strictly lower precedence
EmitsThenPushes(E) ==
    /\ output' = output \o Reverse(SubAt(operators, E))
    /\ operators' = Append(SubAt(operators, (1..Len(operators)) \ E), tokens[pos])
    /\ \/ Len(operators') = 1
       \/ operators'[Len(operators') - 1].type = "LeftParenthesis"
       \/ precedence(operators'[Len(operators') - 1].op) < precedence(tokens[pos].op)

\* C10 as stated: the order of the stack, and every stacked operator of
\* precedence greater than or equal to the incoming one is emitted to the
\* output before the incoming one is pushed.
C10_AllHigherEmittedFirst ==
    /\ []StackPrecedenceIncreases
    /\ [][OperatorRead => EmitsThenPushes(AtLeast(operators, tokens[pos].op))]_vars

\* C10 amended: after every processed token two adjacent Operator tokens on
\* the operator stack have strictly increasing precedence from bottom to
\* top (at most two sit directly above a LeftParenthesis or the bottom), and
\* every operator above the topmost LeftParenthesis (above the bottom with
\* none) of precedence greater than or equal to the incoming one is emitted
\* to the output, the topmost first, before the incoming one is pushed; the
\* operators below a LeftParenthesis stay on the stack.
C10_HigherAboveLeftEmittedFirst ==
    /\ []StackPrecedenceIncreases
    /\ [][OperatorRead =>
             EmitsThenPushes({i \in AtLeast(operators, tokens[pos].op) :
                                 i > TopLeft(operators)})]_vars

C10_Witness ==
    /\ pc = "parse"
    /\ input = <<"2", "*", "(", "1", "+", "1", "-", "1", ")">>
    /\ pos = 8
    /\ output = <<Number(F64OfInt(2)), Number(F64OfInt(1)), Number(F64OfInt(1)),
                  Operator("+")>>
    /\ operators = <<Operator("*"), LeftParenthesis, Operator("-")>>

====
